---------------------------- MODULE Spec2Model ----------------------------
(***************************************************************************)
(* SmartDoc-AI: the Streamlit session (src/app.py) and the retrieval       *)
(* modules it drives (src/modules/*.py), as state machines.                *)
(*                                                                         *)
(* Spec      : one browser session of src/app.py.  The script body runs    *)
(*             top to bottom on every widget event; the process-button     *)
(*             handler is followed statement group by statement group      *)
(*             (pc) so that the states it passes through and the points    *)
(*             where it can raise are states of the model.                 *)
(* FairSpec  : Spec with the fairness of a user who keeps submitting.      *)
(* StoreSpec : create_vector_store and the stores it returns, driven with  *)
(*             bounded chunk lists, environments and queries.              *)
(* EmbedSpec : one LocalEmbeddings instance.                               *)
(* CosineSpec: _cosine_similarity in floating point.                       *)
(* RetrieverSpec: create_retriever and the retrievers it returns.          *)
(* LoaderSpec: load_documents called by two threads at once.               *)
(* ChunkSpec : chunk_data with bounded texts and sizes.                    *)
(***************************************************************************)
EXTENDS Integers, Sequences, FiniteSets, TLC

VARIABLES
    \* ---- st.session_state (src/app.py:89-105, 968, 1127)
    documents, retriever, rag_chain, processed, chat_history,
    document_sources, vector_store, last_question,
    \* ---- the script around it
    question,        \* content of the question text_input widget
    pc,              \* position inside the process-button handler
    all_docs,        \* local of the handler (app.py:1151)
    local_sources,   \* local of the handler (app.py:1152, "document_sources")
    chunks,          \* local of the handler (app.py:1202)
    message,         \* last st.warning / st.error / st.success shown
    upload,          \* the submission being handled: files and manual text
    docset,          \* number of accepted submissions so far (tags the data)
    lastAsk,         \* what the last process_question call did
    built,           \* document sets for which a vector store was created
    \* ---- the store harness (StoreSpec)
    h_docs, h_env, h_store, h_ctor, h_query, h_k, h_seed, h_results, h_op,
    \* ---- the process-wide state of Python's random module
    rng,             \* (followed in EmbedSpec)
    \* ---- the LocalEmbeddings harness (EmbedSpec)
    e_dim,           \* dimensions of the LocalEmbeddings instance
    e_op,            \* "init", "ready", "query" or "documents": the last call
    e_texts,         \* the texts of the last call
    e_out,           \* the vectors the last call returned
    e_seen,          \* per text, the first vector the instance returned for it
    e_again,         \* the last call had a text the instance had embedded before
    \* ---- the _cosine_similarity harness (CosineSpec)
    c_vec1, c_vec2,  \* the arguments of the last call
    c_sim,           \* what it returned
    \* ---- the retriever harness (RetrieverSpec)
    r_retriever,     \* what create_retriever returned
    r_params,        \* search_k, reranker_top_n, whether the reranker loads, was tried
    r_query,         \* the query of the last invoke, and whether scoring worked
    r_cands,         \* what the vector index search gave for it
    r_out,           \* what invoke returned, or Raised
    r_op,            \* "init", "created" or "invoked"
    \* ---- the loader harness (LoaderSpec)
    temp_files,      \* the working directory: per path, the bytes of the file there
    l_calls,         \* per thread, its load_documents call: arguments, position, result
    \* ---- the chunk_data harness (ChunkSpec)
    k_text,          \* page_content of the document given to chunk_data
    k_params,        \* chunk_size and chunk_overlap of the call
    k_out            \* what the call returned, or Raised

svars == <<documents, retriever, rag_chain, processed, chat_history,
           document_sources, vector_store, last_question>>
avars == <<question, pc, all_docs, local_sources, chunks, message, upload,
           docset, lastAsk, built>>
evars == <<rng, e_dim, e_op, e_texts, e_out, e_seen, e_again>>
cvars == <<c_vec1, c_vec2, c_sim>>
rvars == <<r_retriever, r_params, r_query, r_cands, r_out, r_op>>
lvars == <<temp_files, l_calls>>
kvars == <<k_text, k_params, k_out>>
yvars == <<lvars, kvars>>
xvars == <<evars, cvars, rvars, yvars>>
hvars == <<h_docs, h_env, h_store, h_ctor, h_query, h_k, h_seed, h_results, h_op, xvars>>
vars == <<svars, avars, hvars>>

-----------------------------------------------------------------------------
(* Bounds *)

MaxSets == 2         \* accepted submissions in one session
MaxChat == 1         \* entries of chat_history
MaxDocs == 3         \* chunks handed to create_vector_store in StoreSpec
MaxK == 3            \* largest k asked of similarity_search in StoreSpec
MaxSeed == 2         \* distinct seeds of the numpy fallback vectors
MaxDim == 18         \* largest dimensions of a LocalEmbeddings instance
MantissaBits == 8    \* significand bits of a float (53 in the program's doubles)
MaxComponent == 3    \* largest component of a vector given to _cosine_similarity
MaxText == 4         \* longest text given to chunk_data in ChunkSpec
MaxChunk == 3        \* largest chunk_size below the default in ChunkSpec

-----------------------------------------------------------------------------
(* Text and vectors *)

\* Chunk and query texts.  "" is the empty string, " " a whitespace-only one.
Texts == {"a", "b", "c"}
Blank == {"", " "}

\* the whitespace characters of the model's texts
Whitespace == {" ", "\n"}

\* str.lstrip(), str.rstrip(), str.strip()
RECURSIVE lstrip(_)
lstrip(t) == IF Len(t) > 0 /\ SubSeq(t, 1, 1) \in Whitespace THEN lstrip(SubSeq(t, 2, Len(t))) ELSE t

RECURSIVE rstrip(_)
rstrip(t) == IF Len(t) > 0 /\ SubSeq(t, Len(t), Len(t)) \in Whitespace THEN rstrip(SubSeq(t, 1, Len(t) - 1)) ELSE t

strip(t) == rstrip(lstrip(t))

\* Python truthiness of a str
Truthy(t) == t # ""

Dot(u, v) == u[1] * v[1] + u[2] * v[2]
Norm2(u) == Dot(u, u)

\* What embedding_model.embed_query / embed_documents give for one text.
\* The two producers are opaque functions of the text (a sentence model, an
\* MD5-derived vector); only their being functions of the text is used.
ModelVector(name, t) ==
    IF name = "hf"
    THEN CASE t = "a" -> <<2, 0>>
           [] t = "b" -> <<1, 1>>
           [] t = "c" -> <<0, 2>>
           [] OTHER   -> <<1, 2>>
    ELSE CASE t = "a" -> <<1, 2>>
           [] t = "b" -> <<2, 1>>
           [] t = "c" -> <<0, 0>>
           [] OTHER   -> <<2, 2>>

\* np.random.seed(s); np.random.rand(384): one fixed vector per seed
RandVector(s) ==
    CASE s = 0 -> <<1, 0>>
      [] s = 1 -> <<0, 1>>
      [] s = 2 -> <<2, 1>>
      [] OTHER -> <<1, 1>>


-----------------------------------------------------------------------------
(* Documents, embedding models, stores *)

None == [kind |-> "None"]

\* langchain Document; id stands for object identity, set for the submission
\* the text came from.
Doc(t, src, typ, n, i) == [page_content |-> t, metadata |-> [source |-> src, type |-> typ], set |-> n, id |-> i]

\* An embedding model object as the stores see it: which producer it is and
\* whether its embed_documents / embed_query call raises.
Model(name, dr, qr) == [name |-> name, docs_raise |-> dr, query_raise |-> qr]

\* LocalEmbeddings (its methods catch their own errors)
LocalEmbeddings == Model("local", FALSE, FALSE)

embed_documents(m, texts) == [i \in 1..Len(texts) |-> ModelVector(m.name, texts[i])]

embed_query(m, t) == ModelVector(m.name, t)

HasContent(doc) == Truthy(doc.page_content)

\* [doc for doc in docs if doc.page_content]
RECURSIVE WithContent(_)
WithContent(docs) ==
    IF docs = <<>> THEN <<>>
    ELSE (IF HasContent(Head(docs)) THEN <<Head(docs)>> ELSE <<>>) \o WithContent(Tail(docs))

\* [idx for idx in indices if idx < n]
RECURSIVE Below(_, _)
Below(indices, n) ==
    IF indices = <<>> THEN <<>>
    ELSE (IF Head(indices) < n THEN <<Head(indices)>> ELSE <<>>) \o Below(Tail(indices), n)

PageContents(docs) == [i \in 1..Len(docs) |-> docs[i].page_content]

Metadatas(docs) == [i \in 1..Len(docs) |-> docs[i].metadata]

\* seq[:k] for k >= 0
Take(seq, k) == SubSeq(seq, 1, IF k < Len(seq) THEN k ELSE Len(seq))

Store(kind, m, docs, embs, meta, producer) == [kind |-> kind, embedding_model |-> m, documents |-> docs, embeddings |-> embs, metadata |-> meta, producer |-> producer]

Raised(err) == [kind |-> "Raised", error |-> err]

\* ---- SimpleVectorStore (src/modules/simple_vectorstore.py)

\* _create_fallback_embeddings: np.random.seed(i) vectors, i = 0..num_docs-1
SimpleFallbackEmbeddings(num_docs) == [i \in 1..num_docs |-> RandVector(i - 1)]

\* _create_embeddings whose fallback takes the metadata of every document,
\* not only of those with text (simple_vectorstore.py:65 without its filter)
SimpleCreateEmbeddingsAllMetadata(m, docs) ==
    LET texts == PageContents(WithContent(docs))
    IN  IF m.docs_raise
        THEN <<SimpleFallbackEmbeddings(Len(texts)), Metadatas(docs), "numpy">>
        ELSE <<embed_documents(m, texts), Metadatas(WithContent(docs)), m.name>>

\* _create_embeddings, as the (embeddings, metadata, producer) it leaves
SimpleCreateEmbeddings(m, docs) ==
    LET texts == PageContents(WithContent(docs))
        meta == Metadatas(WithContent(docs))
    IN  IF m.docs_raise
        THEN <<SimpleFallbackEmbeddings(Len(texts)), meta, "numpy">>
        ELSE <<embed_documents(m, texts), meta, m.name>>

\* SimpleVectorStore.__init__
SimpleVectorStore(m, docs) ==
    IF docs = <<>>
    THEN Store("SimpleVectorStore", m, <<>>, <<>>, <<>>, m.name)
    ELSE LET r == SimpleCreateEmbeddings(m, docs)
         IN  Store("SimpleVectorStore", m, docs, r[1], r[2], r[3])

\* SimpleVectorStore.add_documents
add_documents(store, docs) ==
    LET all == store.documents \o docs
    IN  IF all = <<>> THEN store
        ELSE LET r == SimpleCreateEmbeddings(store.embedding_model, all)
             IN  Store("SimpleVectorStore", store.embedding_model, all, r[1], r[2], r[3])

get_document_count(store) == Len(store.documents)

\* create_simple_vector_store
create_simple_vector_store(docs, m) ==
    IF docs = <<>> THEN Raised("No documents provided") ELSE SimpleVectorStore(m, docs)

\* _cosine_similarity: the real number num / sqrt(den2), den2 > 0
Sim(num, den2) == [num |-> num, den2 |-> den2]

cosine_similarity(vec1, vec2) ==
    IF Norm2(vec1) = 0 \/ Norm2(vec2) = 0
    THEN Sim(0, 1)
    ELSE Sim(Dot(vec1, vec2), Norm2(vec1) * Norm2(vec2))

Abs(x) == IF x < 0 THEN -x ELSE x

\* s < t as real numbers
SimLess(s, t) == s.num * Abs(s.num) * t.den2 < t.num * Abs(t.num) * s.den2

\* (similarity, i) tuples compared as Python compares tuples
PairLess(p, q) == SimLess(p[1], q[1]) \/ (~SimLess(q[1], p[1]) /\ p[2] < q[2])

\* list.sort(reverse=True) on tuples with distinct second components
RECURSIVE SortReverse(_)
SortReverse(pairs) ==
    IF pairs = {} THEN <<>>
    ELSE LET top == CHOOSE p \in pairs : \A q \in pairs \ {p} : PairLess(q, p)
         IN  <<top>> \o SortReverse(pairs \ {top})

\* the query vector of similarity_search: embed_query, or the numpy vector of
\* seed hash(query) % 1000 when embed_query raises (str hashes are salted per
\* process, so the seed is an input)
QueryEmbedding(store, query, seed) ==
    IF store.embedding_model.query_raise THEN RandVector(seed) ELSE embed_query(store.embedding_model, query)

\* which producer made the query vector of similarity_search
QueryProducer(store) ==
    IF store.embedding_model.query_raise THEN "numpy" ELSE store.embedding_model.name

\* indices (0-based, as in the code) ranked by similarity_search
RankedIndices(store, query, k, seed) ==
    LET q == QueryEmbedding(store, query, seed)
        similarities == {<<cosine_similarity(q, store.embeddings[i]), i - 1>> : i \in 1..Len(store.embeddings)}
        sorted == SortReverse(similarities)
        top == Take(sorted, k)
    IN  [j \in 1..Len(top) |-> top[j][2]]

\* SimpleVectorStore.similarity_search
simple_similarity_search(store, query, k, seed) ==
    IF store.embeddings = <<>> THEN <<>>
    ELSE LET top_k_indices == RankedIndices(store, query, k, seed)
             kept == Below(top_k_indices, Len(store.documents))
         IN  [j \in 1..Len(kept) |-> store.documents[kept[j] + 1]]


\* ---- the inline store and create_vector_store (src/modules/vectorstore.py)

\* random.seed(42); [[random.random() ...] for _ in texts]: the i-th vector
\* drawn from one generator
PyRandomVector(i) == <<i, 1>>

InlineFallbackEmbeddings(n) == [i \in 1..n |-> PyRandomVector(i)]

\* InlineVectorStore.__init__
InlineVectorStore(docs, m) ==
    LET texts == PageContents(WithContent(docs))
    IN  IF m.docs_raise
        THEN Store("InlineVectorStore", m, docs, InlineFallbackEmbeddings(Len(texts)), <<>>, "random")
        ELSE Store("InlineVectorStore", m, docs, embed_documents(m, texts), <<>>, m.name)

\* InlineVectorStore.similarity_search
inline_similarity_search(store, query, k) == Take(store.documents, k)

\* Chroma.from_documents: every document is embedded and stored
ChromaFromDocuments(docs, m) == Store("Chroma", m, docs, embed_documents(m, PageContents(docs)), Metadatas(docs), m.name)

\* Chroma.similarity_search: the k nearest stored documents, nearest first
chroma_similarity_search(store, query, k) ==
    LET q == embed_query(store.embedding_model, query)
        scored == SortReverse({<<cosine_similarity(q, store.embeddings[i]), i - 1>> : i \in 1..Len(store.embeddings)})
        top == Take(scored, k)
    IN  [j \in 1..Len(top) |-> store.documents[top[j][2] + 1]]

\* What the environment does to one create_vector_store call:
\*   hf_init       HuggingFaceEmbeddings(...) constructs
\*   docs_raise    its embed_documents raises when a fallback store calls it
\*   query_raise   its embed_query raises
\*   chroma        Chroma.from_documents: "ok", or it raises with a message
\*                 that contains "sqlite" ("sqlite") or does not ("other")
\*   import_simple "from .simple_vectorstore import ..." succeeds
Env(hf, dr, qr, chroma, imp) == [hf_init |-> hf, docs_raise |-> dr, query_raise |-> qr, chroma |-> chroma, import_simple |-> imp]

Envs ==
    {Env(hf, dr, qr, c, imp) : hf \in BOOLEAN, dr \in BOOLEAN, qr \in BOOLEAN, c \in {"ok", "sqlite", "other"}, imp \in BOOLEAN}

\* Environments that differ only in a switch the call never reads are one
RelevantEnvs ==
    {e \in Envs : /\ (~e.hf_init => ~e.docs_raise /\ ~e.query_raise)
                  /\ (e.chroma # "sqlite" => e.import_simple)}

\* vectorstore.py:32-44
EmbeddingModelFor(env) ==
    IF env.hf_init THEN Model("hf", env.docs_raise, env.query_raise) ELSE LocalEmbeddings

\* vectorstore.py:46-68
BuildStore(docs, embedding_model, env) ==
    CASE env.chroma = "ok" -> ChromaFromDocuments(docs, embedding_model)
      [] env.chroma = "sqlite" ->
            IF env.import_simple
            THEN create_simple_vector_store(docs, embedding_model)
            ELSE InlineVectorStore(docs, embedding_model)
      [] OTHER -> Raised("Failed to create vector store")

\* create_vector_store without the checks of vectorstore.py:18-30
create_vector_store_unchecked(docs, env) == BuildStore(docs, EmbeddingModelFor(env), env)

\* vectorstore.py:7-68
create_vector_store(docs, env) ==
    IF docs = <<>> THEN Raised("No documents provided to create vector store")
    ELSE IF WithContent(docs) = <<>> THEN Raised("No text content found in documents")
    ELSE BuildStore(docs, EmbeddingModelFor(env), env)

IsStore(s) == s.kind \in {"Chroma", "SimpleVectorStore", "InlineVectorStore"}

IsFallbackStore(s) == s.kind \in {"SimpleVectorStore", "InlineVectorStore"}

\* store.similarity_search(query, k) of whichever store it is
similarity_search(store, query, k, seed) ==
    CASE store.kind = "SimpleVectorStore" -> simple_similarity_search(store, query, k, seed)
      [] store.kind = "InlineVectorStore" -> inline_similarity_search(store, query, k)
      [] OTHER -> chroma_similarity_search(store, query, k)


-----------------------------------------------------------------------------
(* LocalEmbeddings (src/modules/vectorstore.py:111-187) in full *)

\* hashlib.md5(text.encode()).hexdigest() has 32 hex digits: 16 numbers
hash_len == 16

\* A text with a lone surrogate: text.encode() raises UnicodeEncodeError
LoneSurrogate == "<U+D800>"

\* vectorstore.py:146-152 ends without an exception
Hashable(text) == text # LoneSurrogate

\* The numbers 0..255 of the MD5 digest of the text (vectorstore.py:149-152)
Md5Numbers(text) ==
    CASE text = "a" -> <<12, 193, 117, 185, 192, 241, 182, 168, 49, 195, 153, 226, 105, 119, 38, 97>>
      [] text = "b" -> <<146, 235, 95, 254, 230, 174, 47, 236, 58, 215, 28, 119, 117, 49, 87, 143>>
      [] text = "c" -> <<74, 138, 8, 240, 157, 55, 183, 55, 149, 100, 144, 56, 64, 139, 95, 51>>
      [] text = "" -> <<212, 29, 140, 217, 143, 0, 178, 4, 233, 128, 9, 152, 236, 248, 66, 126>>
      [] OTHER -> <<114, 21, 238, 156, 125, 157, 194, 41, 210, 146, 26, 64, 232, 153, 236, 95>>

\* The state of the random module: the seed last set and the draws since
RandomState(seed, pos) == [seed |-> seed, pos |-> pos]

\* random.uniform(-1.0, 1.0) in state st, in tenths: a fixed function of the
\* seed and the position
Draw(st) == ((st.seed * 7 + st.pos * 13) % 21) - 10

RECURSIVE SumSq(_)
SumSq(v) == IF v = <<>> THEN 0 ELSE Head(v) * Head(v) + SumSq(Tail(v))

\* An embedding vector: component i is values[i] / sqrt(den2)
Vector(values, den2) == [kind |-> "vector", values |-> values, den2 |-> den2]

\* What a call returns and the state it leaves the random module in
Returned(out, st) == [out |-> out, rng |-> st]

\* _create_random_embedding drawing from the state it finds, without
\* random.seed(42)
create_random_embedding_unseeded(dimensions, st) ==
    LET vector == [i \in 1..dimensions |-> Draw(RandomState(st.seed, st.pos + i - 1))]
        magnitude2 == SumSq(vector)
    IN  Returned(Vector(vector, IF magnitude2 > 0 THEN magnitude2 ELSE 1), RandomState(st.seed, st.pos + dimensions))

\* vectorstore.py:174-187
create_random_embedding(dimensions, st) ==
    LET vector == [i \in 1..dimensions |-> Draw(RandomState(42, i - 1))]
        magnitude2 == SumSq(vector)
    IN  Returned(Vector(vector, IF magnitude2 > 0 THEN magnitude2 ELSE 1), RandomState(42, dimensions))

\* vectorstore.py:157-158: the loop for i in range(len(numbers), dimensions),
\* len(numbers) read anew in every round
RECURSIVE Extend(_, _, _)
Extend(numbers, i, dimensions) ==
    IF i >= dimensions THEN numbers
    ELSE Extend(Append(numbers, (numbers[(i % Len(numbers)) + 1] + i) % 256), i + 1, dimensions)

\* vectorstore.py:155-160 without the truncation and the assert after it
PadOnly(numbers, dimensions) ==
    IF Len(numbers) < dimensions THEN Extend(numbers, Len(numbers), dimensions) ELSE numbers

\* vectorstore.py:155-160
PadOrTruncate(numbers, dimensions) ==
    IF Len(numbers) < dimensions THEN Extend(numbers, Len(numbers), dimensions) ELSE Take(numbers, dimensions)

\* vectorstore.py:143-172; float(num) / 255.0 is num / sqrt(255 * 255)
text_to_embedding(text, dimensions, st) ==
    IF Hashable(text)
    THEN Returned(Vector(PadOrTruncate(Md5Numbers(text), dimensions), 255 * 255), st)
    ELSE create_random_embedding(dimensions, st)

\* embed_query with "if not text" only
local_embed_query_no_strip(dimensions, text, st) ==
    IF ~Truthy(text) THEN create_random_embedding(dimensions, st) ELSE text_to_embedding(text, dimensions, st)

\* vectorstore.py:137-141
local_embed_query(dimensions, text, st) ==
    IF ~Truthy(text) \/ ~Truthy(strip(text))
    THEN create_random_embedding(dimensions, st)
    ELSE text_to_embedding(text, dimensions, st)

\* vectorstore.py:126-131: one round of the loop of embed_documents
embed_one_document(dimensions, text, st) ==
    IF ~Truthy(text) \/ ~Truthy(strip(text))
    THEN create_random_embedding(dimensions, st)
    ELSE text_to_embedding(text, dimensions, st)

\* vectorstore.py:120-135; acc is Returned(embeddings so far, random state)
RECURSIVE local_embed_loop(_, _, _)
local_embed_loop(dimensions, texts, acc) ==
    IF texts = <<>> THEN acc
    ELSE LET r == embed_one_document(dimensions, Head(texts), acc.rng)
         IN  local_embed_loop(dimensions, Tail(texts), Returned(Append(acc.out, r.out), r.rng))

local_embed_documents(dimensions, texts, st) == local_embed_loop(dimensions, texts, Returned(<<>>, st))

\* Texts given to a LocalEmbeddings instance: empty, whitespace-only, plain,
\* and one that cannot be encoded
ETexts == {"", " ", "a", LoneSurrogate}

\* range(384) of vectorstore.py:89
InlineDim == 384


-----------------------------------------------------------------------------
(* SimpleVectorStore._cosine_similarity in floating point                   *)
(* (src/modules/simple_vectorstore.py:98-115).  A float is m * 2^e with a   *)
(* significand of MantissaBits bits, every operation rounded to nearest,    *)
(* ties to even, as IEEE 754 does with 53 bits.                             *)

RECURSIVE Pow2(_)
Pow2(n) == IF n = 0 THEN 1 ELSE 2 * Pow2(n - 1)

Float(m, e) == [kind |-> "float", m |-> m, e |-> e]

Zero == Float(0, 0)

One == Float(Pow2(MantissaBits - 1), 1 - MantissaBits)

\* the integer nearest to num / den, ties to even (num >= 0, den > 0)
RoundHalfEven(num, den) ==
    LET q == num \div den
        r == num % den
    IN  IF 2 * r > den \/ (2 * r = den /\ q % 2 = 1) THEN q + 1 ELSE q

\* a significand that rounding carried to 2^MantissaBits
Renormalize(m, e) == IF m = Pow2(MantissaBits) THEN Float(Pow2(MantissaBits - 1), e + 1) ELSE Float(m, e)

\* the float nearest to (num / den) * 2^e, num > 0, den > 0
RECURSIVE RoundRatio(_, _, _)
RoundRatio(num, den, e) ==
    IF num >= Pow2(MantissaBits) * den THEN RoundRatio(num, 2 * den, e + 1)
    ELSE IF num < Pow2(MantissaBits - 1) * den THEN RoundRatio(2 * num, den, e - 1)
    ELSE Renormalize(RoundHalfEven(num, den), e)

\* floor of the square root
ISqrt(n) == CHOOSE r \in 0..Pow2(MantissaBits) : r * r <= n /\ n < (r + 1) * (r + 1)

\* the float nearest to sqrt(n * 4^(-e)) * 2^e, n > 0 (n below 4^MantissaBits)
RECURSIVE RoundSqrt(_, _)
RoundSqrt(n, e) ==
    IF n < Pow2(MantissaBits - 1) * Pow2(MantissaBits - 1) THEN RoundSqrt(4 * n, e - 1)
    ELSE LET r == ISqrt(n)
         IN  Renormalize(IF n > r * r + r THEN r + 1 ELSE r, e)

RECURSIVE DotN(_, _)
DotN(u, v) == IF u = <<>> THEN 0 ELSE Head(u) * Head(v) + DotN(Tail(u), Tail(v))

\* np.linalg.norm of a vector of small integers: sqrt of the exact sum
FloatNorm(v) == IF DotN(v, v) = 0 THEN Zero ELSE RoundSqrt(DotN(v, v), 0)

\* norm1 * norm2
FloatMul(x, y) == RoundRatio(x.m * y.m, 1, x.e + y.e)

\* a small integer divided by a positive float
FloatDivInt(d, y) ==
    IF d = 0 THEN Zero
    ELSE LET q == IF y.e <= 0 THEN RoundRatio(Abs(d) * Pow2(-y.e), y.m, 0) ELSE RoundRatio(Abs(d), y.m * Pow2(y.e), 0)
         IN  IF d < 0 THEN Float(-q.m, q.e) ELSE q

\* _cosine_similarity without the test for a zero norm: the division by
\* zero gives nan
float_cosine_similarity_unguarded(vec1, vec2) ==
    IF Len(vec1) # Len(vec2) THEN Zero
    ELSE IF DotN(vec1, vec1) = 0 \/ DotN(vec2, vec2) = 0 THEN [kind |-> "nan"]
    ELSE FloatDivInt(DotN(vec1, vec2), FloatMul(FloatNorm(vec1), FloatNorm(vec2)))

\* simple_vectorstore.py:98-115; np.dot of vectors of different lengths
\* raises, which the except turns into 0.0
float_cosine_similarity(vec1, vec2) ==
    IF DotN(vec1, vec1) = 0 \/ DotN(vec2, vec2) = 0 THEN Zero
    ELSE IF Len(vec1) # Len(vec2) THEN Zero
    ELSE FloatDivInt(DotN(vec1, vec2), FloatMul(FloatNorm(vec1), FloatNorm(vec2)))


-----------------------------------------------------------------------------
(* Loading and chunking (src/modules/document_loader.py, chunker.py) *)

\* An uploaded file: its name and what its bytes hold, as the texts of its
\* pages (pdf), sheets (excel) or its one text (docx, txt).
File(name, body) == [name |-> name, body |-> body]

\* Bytes that are no PDF, DOCX or Excel file and no UTF-8 text: every
\* loader's parser raises on them
Garbage == <<"%garbage%">>

UpperCase == "ABCDEFGHIJKLMNOPQRSTUVWXYZ"
LowerCase == "abcdefghijklmnopqrstuvwxyz"

\* str.lower() on one character
LowerChar(c) ==
    LET at == {i \in 1..Len(UpperCase) : SubSeq(UpperCase, i, i) = c}
    IN  IF at = {} THEN c ELSE LET i == CHOOSE i \in at : TRUE IN SubSeq(LowerCase, i, i)

\* str.lower() from the i-th character on
RECURSIVE LowerFrom(_, _)
LowerFrom(s, i) == IF i > Len(s) THEN "" ELSE LowerChar(SubSeq(s, i, i)) \o LowerFrom(s, i + 1)

\* str.lower()
lower(s) == LowerFrom(s, 1)

\* positions of the '.' characters of s
Dots(s) == {i \in 1..Len(s) : SubSeq(s, i, i) = "."}

\* position of the last '.' of s, 0 without one
LastDot(s) == IF Dots(s) = {} THEN 0 ELSE CHOOSE i \in Dots(s) : \A j \in Dots(s) : j <= i

\* s.split('.')[-1]: what stands after the last '.', all of s without one
AfterLastDot(s) == SubSeq(s, LastDot(s) + 1, Len(s))

\* filename.lower().split('.')[-1]
Extension(name) == CHOOSE ext \in {AfterLastDot(s) : s \in {lower(name)}} : TRUE

Loaded(docs) == [kind |-> "ok", docs |-> docs]

\* which loader load_documents hands the file to (document_loader.py:92-99)
LoaderFor(ext) ==
    CASE ext = "pdf" -> "load_pdf"
      [] ext \in {"doc", "docx"} -> "load_docx"
      [] ext \in {"xls", "xlsx"} -> "load_excel"
      [] ext = "txt" -> "load_text"
      [] OTHER -> "none"

\* the documents load_pdf makes of the pages PyPDFLoader read
PdfDocuments(pages, name, n) == [i \in 1..Len(pages) |-> Doc(pages[i], name, "pdf", n, i)]

\* load_documents run on its own: the documents of one file, tagged with
\* submission n
load_documents(body, name, n) ==
    LET ext == Extension(name)
    IN  CASE ext = "pdf" -> IF body = Garbage THEN Raised("Failed to load PDF " \o name) ELSE Loaded(PdfDocuments(body, name, n))
          [] ext \in {"doc", "docx"} -> IF body = Garbage THEN Raised("Failed to load DOCX " \o name) ELSE Loaded(<<Doc(body[1], name, "docx", n, 1)>>)
          [] ext \in {"xls", "xlsx"} -> IF body = Garbage THEN Raised("Failed to load Excel " \o name) ELSE Loaded([i \in 1..Len(body) |-> Doc(body[i], name, "excel", n, i)])
          [] ext = "txt" -> IF body = Garbage THEN Raised("Failed to load text " \o name) ELSE Loaded(<<Doc(body[1], name, "text", n, 1)>>)
          [] OTHER -> Raised("Unsupported file type: " \o ext)

\* ---- load_documents as the statements of one thread, on the working
\* directory that all threads of the process share

\* The two script threads (sessions, or workers of one batch) that can be
\* inside load_documents at once
Threads == {1, 2}

\* no file at a path, and a file holding bytes
Absent == [kind |-> "Absent"]
Stored(bytes) == [kind |-> "file", bytes |-> bytes]

\* File names and bytes the threads load
LNames == {"a.txt", "A.TXT", "x.pdf", "data.csv", "a.txt.csv", "b.docx", "c.xls", "pdf", "txt", "x."}
LBodies == {<<"a">>, <<"b", "c">>, Garbage}

\* temp_path = f"temp_{filename}" (document_loader.py:13)
TempPath(name) == "temp_" \o name

TempPaths == {TempPath(name) : name \in LNames}

\* A thread's call: its arguments, where it stands (pc), the loader it was
\* handed to, the pages the loader read (docs) and the result (out)
Call(name, body, at, loader, pages, out) == [name |-> name, body |-> body, pc |-> at, loader |-> loader, pages |-> pages, out |-> out]

NoCall == Call("", <<>>, "idle", "none", <<>>, None)

\* document_loader.py:90-101: the dispatch on the extension.  load_docx,
\* load_excel and load_text work on the bytes in memory and are one step;
\* load_pdf goes on through the temporary file.
Dispatch(c, n) ==
    LET loader == LoaderFor(Extension(c.name))
    IN  IF loader = "load_pdf"
        THEN [c EXCEPT !.pc = "write", !.loader = loader]
        ELSE [c EXCEPT !.pc = "done", !.loader = loader, !.out = load_documents(c.body, c.name, n)]

\* document_loader.py:14-15: open(temp_path, "wb") and write
WriteTemp(files, c) == [files EXCEPT ![TempPath(c.name)] = Stored(c.body)]

\* document_loader.py:18-19: PyPDFLoader(temp_path).load() reads whatever is
\* at the path now; no file there, or bytes that are no PDF, raise
\* (document_loader.py:30-31)
LoadTemp(files, c) ==
    LET at == files[TempPath(c.name)]
    IN  IF at.kind = "Absent" \/ at.bytes = Garbage
        THEN [c EXCEPT !.pc = "done", !.out = Raised("Failed to load PDF " \o c.name)]
        ELSE [c EXCEPT !.pc = "remove", !.pages = at.bytes]

\* document_loader.py:22-29: os.remove(temp_path) raises when the file is
\* gone; otherwise the documents get their metadata and are returned
RemoveTemp(files, c, n) ==
    IF files[TempPath(c.name)].kind = "Absent"
    THEN <<files, [c EXCEPT !.pc = "done", !.out = Raised("Failed to load PDF " \o c.name)]>>
    ELSE <<[files EXCEPT ![TempPath(c.name)] = Absent], [c EXCEPT !.pc = "done", !.out = Loaded(PdfDocuments(c.pages, c.name, n))]>>

\* load_from_text
load_from_text(text_content, n) == <<Doc(text_content, "Manual Input", "manual", n, 1)>>

\* Object identities by position in the list
Renumber(docs) == [i \in 1..Len(docs) |-> [docs[i] EXCEPT !.id = i]]

\* chunk_data(data, chunk_size=1000, chunk_overlap=100)
DefaultChunkSize == 1000
DefaultChunkOverlap == 100

\* ---- RecursiveCharacterTextSplitter(chunk_size, chunk_overlap), as
\* chunker.py:29-34 constructs and calls it: default separators, the
\* separator kept at the start of the piece after it, chunks stripped.
\* P is [chunk_size, chunk_overlap].

Separators == <<"\n\n", "\n", " ", "">>

Params(chunk_size, chunk_overlap) == [chunk_size |-> chunk_size, chunk_overlap |-> chunk_overlap]

\* first position of sep in text, 0 when it does not occur
FirstAt(text, sep) ==
    LET at == {i \in 1..Len(text) - Len(sep) + 1 : SubSeq(text, i, i + Len(sep) - 1) = sep}
    IN  IF at = {} THEN 0 ELSE CHOOSE i \in at : \A j \in at : i <= j

\* list(text)
Chars(text) == [i \in 1..Len(text) |-> SubSeq(text, i, i)]

\* the pieces between the occurrences of sep, each but the first starting
\* with sep, empty pieces dropped; lead is what the next piece starts with
RECURSIVE SplitKeep(_, _, _)
SplitKeep(text, sep, lead) ==
    LET i == FirstAt(text, sep)
        piece == lead \o (IF i = 0 THEN text ELSE SubSeq(text, 1, i - 1))
        first == IF Len(piece) = 0 THEN <<>> ELSE <<piece>>
    IN  IF i = 0 THEN first
        ELSE first \o SplitKeep(SubSeq(text, i + Len(sep), Len(text)), sep, sep)

\* "".join(docs)
RECURSIVE Concat(_)
Concat(pieces) == IF pieces = <<>> THEN "" ELSE Head(pieces) \o Concat(Tail(pieces))

\* _join_docs: the stripped text as a one-chunk list, nothing when it is empty
JoinDocs(current) ==
    LET text == strip(Concat(current))
    IN  IF Len(text) = 0 THEN <<>> ELSE <<text>>

\* the while loop of _merge_splits: pieces leave the front of current_doc
\* until what stays fits the overlap and leaves room for the next piece
RECURSIVE Shrink(_, _, _, _)
Shrink(current, total, len, P) ==
    IF total > P.chunk_overlap \/ (total + len > P.chunk_size /\ total > 0)
    THEN Shrink(Tail(current), total - Len(Head(current)), len, P)
    ELSE <<current, total>>

\* _merge_splits(splits, "") from the state (docs, current_doc, total)
RECURSIVE MergeSplits(_, _, _, _, _)
MergeSplits(splits, docs, current, total, P) ==
    IF splits = <<>> THEN docs \o JoinDocs(current)
    ELSE LET d == Head(splits)
             full == total + Len(d) > P.chunk_size /\ current # <<>>
             kept == IF full THEN Shrink(current, total, Len(d), P) ELSE <<current, total>>
         IN  MergeSplits(Tail(splits), IF full THEN docs \o JoinDocs(current) ELSE docs, Append(kept[1], d), kept[2] + Len(d), P)

\* index of the separator _split_text works with: the first that is "" or
\* occurs in text, the last one when there is none
SeparatorIndex(text, separators) ==
    LET hit == {i \in 1..Len(separators) : separators[i] = "" \/ FirstAt(text, separators[i]) # 0}
    IN  IF hit = {} THEN Len(separators) ELSE CHOOSE i \in hit : \A j \in hit : i <= j

\* _split_text(text, separators), and its loop over the pieces with the
\* pieces shorter than chunk_size collected in good
RECURSIVE split_text(_, _, _)
RECURSIVE SplitLoop(_, _, _, _, _)
SplitLoop(splits, good, final, new_separators, P) ==
    LET merged == IF good = <<>> THEN final ELSE final \o MergeSplits(good, <<>>, <<>>, 0, P)
    IN  IF splits = <<>> THEN merged
        ELSE IF Len(Head(splits)) < P.chunk_size
             THEN SplitLoop(Tail(splits), Append(good, Head(splits)), final, new_separators, P)
             ELSE SplitLoop(Tail(splits), <<>>,
                            merged \o (IF new_separators = <<>> THEN <<Head(splits)>> ELSE split_text(Head(splits), new_separators, P)),
                            new_separators, P)

split_text(text, separators, P) ==
    LET i == SeparatorIndex(text, separators)
        separator == separators[i]
        new_separators == IF separator = "" \/ FirstAt(text, separator) = 0 THEN <<>> ELSE SubSeq(separators, i + 1, Len(separators))
        splits == IF separator = "" THEN Chars(text) ELSE SplitKeep(text, separator, "")
    IN  SplitLoop(splits, <<>>, <<>>, new_separators, P)

\* split_documents: the chunks of every document, with its metadata
RECURSIVE split_documents(_, _)
split_documents(docs, P) ==
    IF docs = <<>> THEN <<>>
    ELSE LET texts == split_text(Head(docs).page_content, Separators, P)
         IN  [i \in 1..Len(texts) |-> [Head(docs) EXCEPT !.page_content = texts[i]]] \o split_documents(Tail(docs), P)

\* text_splitter.split_documents(data) with the default sizes
SplitDocuments(docs) == split_documents(docs, Params(DefaultChunkSize, DefaultChunkOverlap))

\* chunk_data(data), as app.py:1202 calls it
chunk_data(data) == Renumber(SplitDocuments(data))

\* chunk_data(data, chunk_size, chunk_overlap): the splitter's constructor
\* raises ValueError when chunk_overlap is larger than chunk_size
chunk_data_sized(data, chunk_size, chunk_overlap) ==
    IF chunk_overlap > chunk_size
    THEN Raised("Got a larger chunk overlap than chunk size")
    ELSE Loaded(Renumber(split_documents(data, Params(chunk_size, chunk_overlap))))

\* One entry of the document_sources dict
SourceEntry(src, typ, n, set) == [source |-> src, type |-> typ, chunks |-> n, set |-> set]

\* d[key] = value on a dict held as a set of entries
DictPut(d, e) == {x \in d : x.source # e.source} \cup {e}

\* app.py:1170-1176 for the documents of one file
RECURSIVE PutSources(_, _, _)
PutSources(d, docs, count) ==
    IF docs = <<>> THEN d
    ELSE PutSources(DictPut(d, SourceEntry(Head(docs).metadata.source, Head(docs).metadata.type, count, Head(docs).set)), Tail(docs), count)

\* app.py:1159-1176: the loop over the uploaded files.  acc is
\* [kind, docs, sources]; a file that raises ends the loop with Raised.
RECURSIVE LoadFiles(_, _, _)
LoadFiles(files, n, acc) ==
    IF files = <<>> THEN acc
    ELSE LET r == load_documents(Head(files).body, Head(files).name, n)
         IN  IF r.kind = "Raised" THEN r
             ELSE LoadFiles(Tail(files), n, [kind |-> "ok", docs |-> acc.docs \o r.docs, sources |-> PutSources(acc.sources, r.docs, Len(r.docs))])

\* app.py:1151-1190: all_docs and document_sources of a submission, or Raised
LoadSubmission(files, text, n) ==
    LET f == LoadFiles(files, n, [kind |-> "ok", docs |-> <<>>, sources |-> {}])
    IN  IF f.kind = "Raised" THEN f
        ELSE IF strip(text) # ""
             THEN [kind |-> "ok", docs |-> f.docs \o load_from_text(text, n), sources |-> DictPut(f.sources, SourceEntry("Manual Input", "manual", 1, n))]
             ELSE f

-----------------------------------------------------------------------------
(* Retriever and chain (src/modules/retriever.py, chain.py) *)


search_k == 15
reranker_top_n == 5
SimpleRetrieverK == 5

Retriever(kind, store, k, top_n) == [kind |-> kind, store |-> store, k |-> k, top_n |-> top_n]

\* vectorstore.as_retriever(...)
as_retriever(store, k) ==
    IF IsFallbackStore(store)
    THEN Retriever("SimpleRetriever", store, SimpleRetrieverK, 0)
    ELSE Retriever("VectorStoreRetriever", store, k, 0)

\* retriever.py:40-47: whether create_retriever gets to construct the
\* HuggingFaceCrossEncoder
LoadsCrossEncoder(store, k) == as_retriever(store, k).kind # "SimpleRetriever"

\* create_retriever without the class-name check of retriever.py:40-42
create_retriever_unchecked(store, k, top_n, cross_ok) ==
    IF cross_ok THEN Retriever("ContextualCompressionRetriever", store, k, top_n)
    ELSE as_retriever(store, k)

\* create_retriever; cross_ok: the cross-encoder and the reranker construct
create_retriever(store, k, top_n, cross_ok) ==
    LET base_retriever == as_retriever(store, k)
    IN  IF base_retriever.kind = "SimpleRetriever" THEN base_retriever
        ELSE IF cross_ok THEN Retriever("ContextualCompressionRetriever", store, k, top_n)
        ELSE base_retriever

\* The cross-encoder's relevance score of (query, text): a fixed function
CrossScore(q, t) ==
    CASE q = t -> 3
      [] t = "c" -> 2
      [] t = "a" -> 1
      [] OTHER -> 0

\* CrossEncoderReranker.compress_documents: best top_n by score
Rerank(q, candidates, top_n) ==
    LET scored == SortReverse({<<Sim(CrossScore(q, candidates[i].page_content), 1), Len(candidates) - i>> : i \in 1..Len(candidates)})
        top == Take(scored, top_n)
    IN  [j \in 1..Len(top) |-> candidates[Len(candidates) - top[j][2]]]

\* retriever.invoke(query)
Retrieve(r, q, seed) ==
    IF r.kind = "ContextualCompressionRetriever"
    THEN Rerank(q, similarity_search(r.store, q, r.k, seed), r.top_n)
    ELSE similarity_search(r.store, q, r.k, seed)

\* what retriever.invoke returns
Found(docs) == [kind |-> "ok", docs |-> docs]

\* the candidates the retriever asks of the vector index
Candidates(r, q, seed) == similarity_search(r.store, q, r.k, seed)

\* retriever.invoke(query); score_ok: the cross-encoder scores the candidates
\* (ContextualCompressionRetriever lets its compressor's exception through)
Invoke(r, q, seed, score_ok) ==
    IF r.kind = "ContextualCompressionRetriever" /\ ~score_ok
    THEN Raised("cross-encoder failed")
    ELSE Found(Retrieve(r, q, seed))

Chain(r) == [kind |-> "chain", retriever |-> r]

\* create_rag_chain; llm_ok: ChatGroq(...) constructs
create_rag_chain(r, llm_ok) == IF llm_ok THEN Chain(r) ELSE Raised("Error initializing Groq LLM")


-----------------------------------------------------------------------------
(* The session (src/app.py) *)

\* What the user can upload in one submission, and type as manual text
FileA == File("a.txt", <<"a">>)
FileAB == File("ab.pdf", <<"a", "b">>)
FileBlank == File("blank.txt", <<" ">>)
FileCsv == File("data.csv", <<"c">>)
FileScan == File("scan.pdf", <<>>)

Uploads == {<<>>, <<FileA>>, <<FileAB>>, <<FileBlank>>, <<FileCsv>>, <<FileScan>>, <<FileA, FileAB>>, <<FileA, FileCsv>>, <<FileBlank, FileScan>>}

ManualTexts == {"", " ", "c"}

Questions == {"a", "b"}

\* Environments of create_vector_store in the session: the embedding model,
\* once constructed, does not raise (StoreSpec covers the ones that do)
SessionEnvs == {e \in RelevantEnvs : ~e.docs_raise /\ ~e.query_raise}

NoAsk == [calls |-> 0, question |-> "", reached |-> FALSE, outcome |-> "none", results |-> <<>>]

HarnessIdle ==
    /\ h_docs = <<>>
    /\ h_env = Env(TRUE, FALSE, FALSE, "ok", TRUE)
    /\ h_store = None
    /\ h_ctor = "none"
    /\ h_query = ""
    /\ h_k = 0
    /\ h_seed = 0
    /\ h_results = <<>>
    /\ h_op = "init"
    /\ rng = RandomState(0, 0)
    /\ e_dim = 0
    /\ e_op = "init"
    /\ e_texts = <<>>
    /\ e_out = <<>>
    /\ e_seen = [t \in ETexts |-> None]
    /\ e_again = FALSE
    /\ c_vec1 = <<>>
    /\ c_vec2 = <<>>
    /\ c_sim = None
    /\ r_retriever = None
    /\ r_params = [search_k |-> search_k, reranker_top_n |-> reranker_top_n, cross_ok |-> TRUE, cross_tried |-> FALSE]
    /\ r_query = [text |-> "", score_ok |-> TRUE]
    /\ r_cands = <<>>
    /\ r_out = None
    /\ r_op = "init"
    /\ temp_files = [path \in TempPaths |-> Absent]
    /\ l_calls = [p \in Threads |-> NoCall]
    /\ k_text = ""
    /\ k_params = Params(DefaultChunkSize, DefaultChunkOverlap)
    /\ k_out = None

\* app.py:89-105, and the script's locals before any handler ran
SessionInit ==
    /\ documents = <<>>
    /\ retriever = None
    /\ rag_chain = [kind |-> "False"]
    /\ processed = FALSE
    /\ chat_history = <<>>
    /\ document_sources = {}
    /\ vector_store = None
    /\ last_question = "Unset"
    /\ question = ""
    /\ pc = "idle"
    /\ all_docs = <<>>
    /\ local_sources = {}
    /\ chunks = <<>>
    /\ message = "none"
    /\ upload = [files |-> <<>>, text |-> ""]
    /\ docset = 0
    /\ lastAsk = NoAsk
    /\ built = {}

Init == SessionInit /\ HarnessIdle

locals == <<all_docs, local_sources, chunks>>

\* app.py:1123 without the strip()
HasInputNoStrip(files, text) == files # <<>> \/ text # ""

\* app.py:1123
HasInput(files, text) == files # <<>> \/ strip(text) # ""

\* app.py:1241: the placeholder that demo mode stores as the documents
DemoDocuments == <<Doc("", "Demo Document", "demo", 0, 1)>>

\* app.py:1238-1245: the demo mode button
DemoMode ==
    /\ pc = "idle" /\ ~processed
    /\ documents' = DemoDocuments
    /\ document_sources' = {SourceEntry("Demo Document", "demo", 3, 0)}
    /\ processed' = TRUE
    /\ message' = "Demo"
    /\ UNCHANGED <<retriever, rag_chain, chat_history, vector_store, last_question, question, pc, locals, upload, docset, lastAsk, built, hvars>>

\* The process button with a reset that leaves out app.py:1128-1129: the
\* vector store and the retriever of the submission before stay
ProcessButtonKeepsIndex(files, text) ==
    /\ pc = "idle" /\ ~processed /\ docset < MaxSets
    /\ upload' = [files |-> files, text |-> text]
    /\ IF HasInput(files, text)
       THEN /\ document_sources' = {}
            /\ chat_history' = <<>>
            /\ last_question' = ""
            /\ rag_chain' = None
            /\ documents' = <<>>
            /\ processed' = FALSE
            /\ all_docs' = <<>>
            /\ local_sources' = {}
            /\ chunks' = <<>>
            /\ docset' = docset + 1
            /\ message' = "none"
            /\ pc' = "load"
            /\ UNCHANGED <<vector_store, retriever>>
       ELSE /\ message' = "NoInput"
            /\ UNCHANGED <<svars, locals, docset, pc>>
    /\ UNCHANGED <<question, lastAsk, built, hvars>>

\* app.py:1122-1148 and 1235-1236: the process button.  With input, the
\* session is cleared and the handler goes on to load the files; without,
\* only the warning is shown.
ProcessButton(files, text) ==
    /\ pc = "idle" /\ ~processed /\ docset < MaxSets
    /\ upload' = [files |-> files, text |-> text]
    /\ IF HasInput(files, text)
       THEN /\ document_sources' = {}
            /\ chat_history' = <<>>
            /\ last_question' = ""
            /\ vector_store' = None
            /\ retriever' = None
            /\ rag_chain' = None
            /\ documents' = <<>>
            /\ processed' = FALSE
            /\ all_docs' = <<>>
            /\ local_sources' = {}
            /\ chunks' = <<>>
            /\ docset' = docset + 1
            /\ message' = "none"
            /\ pc' = "load"
       ELSE /\ message' = "NoInput"
            /\ UNCHANGED <<svars, locals, docset, pc>>
    /\ UNCHANGED <<question, lastAsk, built, hvars>>

\* app.py:1227-1234: an exception ends the handler with an error shown
HandlerFails ==
    /\ message' = "ErrorProcessing"
    /\ pc' = "idle"

\* app.py:1150-1194 and 1224-1225: load the files and the manual text
LoadStep ==
    /\ pc = "load"
    /\ LET r == LoadSubmission(upload.files, upload.text, docset)
       IN  IF r.kind = "Raised"
           THEN HandlerFails /\ UNCHANGED <<all_docs, local_sources, document_sources>>
           ELSE /\ all_docs' = Renumber(r.docs)
                /\ local_sources' = r.sources
                /\ IF r.docs # <<>>
                   THEN document_sources' = r.sources /\ pc' = "chunk" /\ message' = "none"
                   ELSE message' = "NoValidDocuments" /\ pc' = "idle" /\ UNCHANGED document_sources
    /\ UNCHANGED <<documents, retriever, rag_chain, processed, chat_history, vector_store, last_question>>
    /\ UNCHANGED <<question, chunks, upload, docset, lastAsk, built, hvars>>

\* app.py:1198-1202
ChunkStep ==
    /\ pc = "chunk"
    /\ chunks' = chunk_data(all_docs)
    /\ pc' = "store"
    /\ UNCHANGED <<svars, question, all_docs, local_sources, message, upload, docset, lastAsk, built, hvars>>

\* app.py:1204-1209
StoreStep(env) ==
    /\ pc = "store"
    /\ LET vs == create_vector_store(chunks, env)
       IN  IF vs.kind = "Raised"
           THEN HandlerFails /\ UNCHANGED <<vector_store, built>>
           ELSE vector_store' = vs /\ built' = built \cup {docset} /\ pc' = "retriever" /\ message' = "none"
    /\ UNCHANGED <<documents, retriever, rag_chain, processed, chat_history, document_sources, last_question>>
    /\ UNCHANGED <<question, locals, upload, docset, lastAsk, hvars>>

\* app.py:1211-1215
RetrieverStep(cross_ok) ==
    /\ pc = "retriever"
    /\ retriever' = create_retriever(vector_store, search_k, reranker_top_n, cross_ok)
    /\ pc' = "chain"
    /\ UNCHANGED <<documents, rag_chain, processed, chat_history, document_sources, vector_store, last_question>>
    /\ UNCHANGED <<question, locals, message, upload, docset, lastAsk, built, hvars>>

\* app.py:1216-1223 with the documents and processed = True published even
\* when create_rag_chain raised
ChainStepPublishesAlways(llm_ok) ==
    /\ pc = "chain"
    /\ LET c == create_rag_chain(retriever, llm_ok)
       IN  IF c.kind = "Raised"
           THEN HandlerFails /\ UNCHANGED rag_chain
           ELSE rag_chain' = c /\ message' = "Activated" /\ pc' = "idle"
    /\ documents' = all_docs
    /\ processed' = TRUE
    /\ UNCHANGED <<retriever, chat_history, document_sources, vector_store, last_question>>
    /\ UNCHANGED <<question, locals, upload, docset, lastAsk, built, hvars>>

\* app.py:1216-1223
ChainStep(llm_ok) ==
    /\ pc = "chain"
    /\ LET c == create_rag_chain(retriever, llm_ok)
       IN  IF c.kind = "Raised"
           THEN HandlerFails /\ UNCHANGED <<rag_chain, documents, processed>>
           ELSE /\ rag_chain' = c
                /\ documents' = all_docs
                /\ processed' = TRUE
                /\ message' = "Activated"
                /\ pc' = "idle"
    /\ UNCHANGED <<retriever, chat_history, document_sources, vector_store, last_question>>
    /\ UNCHANGED <<question, locals, upload, docset, lastAsk, built, hvars>>


\* ---- the question area (app.py:29-87, 948-981)

\* The part of the state one script pass works on; rerun: st.rerun() was
\* called, calls: process_question calls so far in this event
Pass(ch, lq, q, msg, ask, rerun) == [ch |-> ch, lq |-> lq, q |-> q, msg |-> msg, ask |-> ask, rerun |-> rerun]

\* The generated answer: a function of the question and the retrieved context
Answer(q, context) == [question |-> q, context |-> context]

ChatItem(q, results) == [question |-> q, answer |-> Answer(q, results), sources |-> {e.source : e \in document_sources}]

\* rag_chain.invoke exists only on a chain object (None and False have none)
CanInvoke(rc) == rc.kind = "chain"

\* process_question that does not report a chain it cannot invoke: it
\* records an answer with no context instead
process_question_silent(S, q, ok) ==
    IF ok
    THEN LET results == IF CanInvoke(rag_chain) THEN Retrieve(rag_chain.retriever, q, 0) ELSE <<>>
         IN  Pass(Append(S.ch, ChatItem(q, results)), S.lq, S.q, "InsightAdded", [calls |-> S.ask.calls + 1, question |-> q, reached |-> TRUE, outcome |-> "answer", results |-> results], TRUE)
    ELSE Pass(S.ch, "", S.q, "ErrorGeneratingAnswer", [calls |-> S.ask.calls + 1, question |-> q, reached |-> CanInvoke(rag_chain), outcome |-> "error", results |-> <<>>], FALSE)

\* process_question that has the primary index rebuilt from the stored chunks
\* and asked on every question, whatever store the build chose
process_question_retries_primary(S, q, ok) ==
    IF CanInvoke(rag_chain) /\ ok
    THEN LET r == rag_chain.retriever
             results == Retrieve([r EXCEPT !.store = ChromaFromDocuments(r.store.documents, r.store.embedding_model)], q, 0)
         IN  Pass(Append(S.ch, ChatItem(q, results)), S.lq, S.q, "InsightAdded", [calls |-> S.ask.calls + 1, question |-> q, reached |-> TRUE, outcome |-> "answer", results |-> results], TRUE)
    ELSE Pass(S.ch, "", S.q, "ErrorGeneratingAnswer", [calls |-> S.ask.calls + 1, question |-> q, reached |-> CanInvoke(rag_chain), outcome |-> "error", results |-> <<>>], FALSE)

\* process_question(q); ok: the chain's invoke returns an answer
process_question(S, q, ok) ==
    IF CanInvoke(rag_chain) /\ ok
    THEN LET results == Retrieve(rag_chain.retriever, q, 0)
         IN  Pass(Append(S.ch, ChatItem(q, results)), S.lq, S.q, "InsightAdded", [calls |-> S.ask.calls + 1, question |-> q, reached |-> TRUE, outcome |-> "answer", results |-> results], TRUE)
    ELSE Pass(S.ch, "", S.q, "ErrorGeneratingAnswer", [calls |-> S.ask.calls + 1, question |-> q, reached |-> CanInvoke(rag_chain), outcome |-> "error", results |-> <<>>], FALSE)

\* app.py:957-959
DiscoverPart(S, button, ok) ==
    IF button = "discover" /\ strip(S.q) # "" THEN process_question(S, S.q, ok) ELSE S

\* app.py:961-963
ClearPart(S, button) ==
    IF ~S.rerun /\ button = "clear" THEN [S EXCEPT !.rerun = TRUE] ELSE S

\* app.py:966-969
EnterPart(S, ok) ==
    IF ~S.rerun /\ strip(S.q) # "" /\ S.lq # S.q
    THEN process_question([S EXCEPT !.lq = S.q], S.q, ok)
    ELSE S

\* app.py:974-981
ClearChatPart(S, button) ==
    IF ~S.rerun /\ S.ch # <<>> /\ button = "clearchat"
    THEN [S EXCEPT !.ch = <<>>, !.msg = "ChatCleared", !.rerun = TRUE]
    ELSE S

\* The text_input's key is question_input_<len(chat_history)>: with another
\* length the pass renders a new, empty widget
WidgetAfter(S, len) == IF Len(S.ch) # len THEN "" ELSE S.q

\* The pass that st.rerun() starts: no button is pressed in it, so of the
\* four parts only app.py:966-969 can act
RerunPass(S, len, ok) ==
    IF S.rerun
    THEN EnterPart([S EXCEPT !.q = WidgetAfter(S, len), !.rerun = FALSE], ok)
    ELSE S

\* A widget event in the processed branch: q is the text_input's content
\* when the script runs, button the button pressed.  The script pass
\* (app.py:957-981) and the passes its st.rerun() calls start are one step.
QuestionEvent(q, button, ok1, ok2, ok3) ==
    /\ pc = "idle" /\ processed
    /\ \E A \in {DiscoverPart(Pass(chat_history, last_question, q, message, NoAsk, FALSE), button, ok1)} :
       \E B \in {ClearPart(A, button)} :
       \E C \in {EnterPart(B, ok2)} :
       \E D \in {ClearChatPart(C, button)} :
       \E E \in {RerunPass(D, Len(chat_history), ok3)} :
       \E F \in {RerunPass(E, Len(D.ch), ok3)} :
           /\ Len(F.ch) <= MaxChat
           /\ chat_history' = F.ch
           /\ last_question' = F.lq
           /\ question' = WidgetAfter(F, Len(E.ch))
           /\ message' = F.msg
           /\ lastAsk' = F.ask
    /\ UNCHANGED <<documents, retriever, rag_chain, processed, document_sources, vector_store>>
    /\ UNCHANGED <<pc, locals, upload, docset, built, hvars>>

\* The user commits a new text in the question box (Enter or focus change)
TypeQuestion(q, ok) == q # question /\ QuestionEvent(q, "none", ok, ok, ok)

\* "Discover Insights"
PressDiscover(ok1, ok2, ok3) == processed /\ QuestionEvent(question, "discover", ok1, ok2, ok3)

\* "Clear"
PressClear(ok) == processed /\ QuestionEvent(question, "clear", ok, ok, ok)

\* "Clear Chat History", rendered while the history is not empty
PressClearChat(ok) == chat_history # <<>> /\ QuestionEvent(question, "clearchat", ok, ok, ok)

QuestionTexts == Questions \cup Blank

Next ==
    \/ pc = "idle" /\ ~processed /\ \E f \in Uploads, t \in ManualTexts : ProcessButton(f, t)
    \/ LoadStep
    \/ ChunkStep
    \/ pc = "store" /\ \E e \in SessionEnvs : StoreStep(e)
    \/ pc = "retriever" /\ \E c \in BOOLEAN : RetrieverStep(c)
    \/ pc = "chain" /\ \E l \in BOOLEAN : ChainStep(l)
    \/ DemoMode
    \/ processed /\ \E q \in QuestionTexts, ok \in BOOLEAN : TypeQuestion(q, ok)
    \/ processed /\ \E ok1 \in BOOLEAN, ok2 \in BOOLEAN, ok3 \in BOOLEAN : PressDiscover(ok1, ok2, ok3)
    \/ processed /\ \E ok \in BOOLEAN : PressClear(ok)
    \/ processed /\ \E ok \in BOOLEAN : PressClearChat(ok)

Spec == Init /\ [][Next]_vars

\* A submission with input (the one the handler goes on to index)
SubmitNew == \E f \in Uploads, t \in ManualTexts : HasInput(f, t) /\ ProcessButton(f, t)

\* The handler, once started, runs to its end
HandlerStep ==
    \/ LoadStep
    \/ ChunkStep
    \/ \E e \in SessionEnvs : StoreStep(e)
    \/ \E c \in BOOLEAN : RetrieverStep(c)
    \/ \E l \in BOOLEAN : ChainStep(l)

\* The session with a user who has another document set to submit and
\* submits it whenever the page offers the process button
FairSpec == Spec /\ WF_vars(SubmitNew) /\ WF_vars(HandlerStep)


-----------------------------------------------------------------------------
(* The stores on their own: create_vector_store, SimpleVectorStore and      *)
(* similarity_search called with bounded chunk lists, environments, queries *)

HContents == {"", "a", "b"}

\* Chunk lists of up to n chunks; ids from base + 1
HDocLists(n, base) ==
    LET texts == UNION {[1..m -> HContents] : m \in 0..n}
    IN  {[i \in 1..Len(ts) |-> Doc(ts[i], "h.txt", "text", 1, base + i)] : ts \in texts}

HModels == {EmbeddingModelFor(e) : e \in RelevantEnvs}

\* k of a search: 0..MaxK and the retrievers' own k
HKs == 0..MaxK \cup {SimpleRetrieverK}

HSeeds(store) == IF IsStore(store) /\ store.embedding_model.query_raise THEN 0..MaxSeed ELSE {0}

\* create_vector_store(docs) under environment env
HCreate(docs, env) ==
    /\ h_op = "init"
    /\ h_docs' = docs
    /\ h_env' = env
    /\ h_store' = create_vector_store(docs, env)
    /\ h_ctor' = "create_vector_store"
    /\ h_op' = "create"
    /\ UNCHANGED <<h_query, h_k, h_seed, h_results, svars, avars, xvars>>

\* SimpleVectorStore(embedding_model, docs)
HSimple(docs, m) ==
    /\ h_op = "init"
    /\ h_docs' = docs
    /\ h_store' = SimpleVectorStore(m, docs)
    /\ h_ctor' = "SimpleVectorStore"
    /\ h_op' = "create"
    /\ UNCHANGED <<h_env, h_query, h_k, h_seed, h_results, svars, avars, xvars>>

\* store.add_documents(docs)
HAdd(docs) ==
    /\ h_op \in {"create", "add"}
    /\ h_store.kind = "SimpleVectorStore"
    /\ docs # <<>>
    /\ Len(h_store.documents) + Len(docs) <= MaxDocs
    /\ h_store' = add_documents(h_store, docs)
    /\ h_docs' = h_docs \o docs
    /\ h_ctor' = "add_documents"
    /\ h_op' = "add"
    /\ UNCHANGED <<h_env, h_query, h_k, h_seed, h_results, svars, avars, xvars>>

\* store.similarity_search(q, k) on the store as built (a search leaves the
\* store as it is, so one search per store shows them all)
HSearch(q, k, seed) ==
    /\ h_op \in {"create", "add"}
    /\ IsStore(h_store)
    /\ h_store.kind = "Chroma" => ~h_store.embedding_model.query_raise
    /\ h_results' = similarity_search(h_store, q, k, seed)
    /\ h_query' = q
    /\ h_k' = k
    /\ h_seed' = seed
    /\ h_op' = "search"
    /\ UNCHANGED <<h_docs, h_env, h_store, h_ctor, svars, avars, xvars>>

StoreNext ==
    \/ h_op = "init" /\ \E d \in HDocLists(MaxDocs, 0), e \in RelevantEnvs : HCreate(d, e)
    \/ h_op = "init" /\ \E d \in HDocLists(MaxDocs, 0), m \in HModels : HSimple(d, m)
    \/ h_op \in {"create", "add"} /\ \E d \in HDocLists(MaxDocs - Len(h_docs), Len(h_docs)) : HAdd(d)
    \/ h_op \in {"create", "add"} /\ \E q \in Texts, k \in HKs, seed \in HSeeds(h_store) : HSearch(q, k, seed)

StoreSpec == Init /\ [][StoreNext]_vars


-----------------------------------------------------------------------------
(* One LocalEmbeddings instance, called with bounded texts, while other     *)
(* code of the process uses the random module                               *)

\* dimensions around the 16 numbers of the digest, up to MaxDim
EDims == {1, hash_len - 1, hash_len, hash_len + 1, MaxDim}

\* the texts of one embed_documents call: none, one or two
EBatches == {<<>>} \cup {<<t>> : t \in ETexts} \cup {<<t, u>> : t \in ETexts, u \in ETexts}

OtherVars == <<svars, avars, h_docs, h_env, h_store, h_ctor, h_query, h_k, h_seed, h_results, h_op, cvars, rvars, yvars>>

\* e_seen after the texts got the vectors out: a text keeps its first vector
RECURSIVE Remember(_, _, _)
Remember(seen, texts, out) ==
    IF texts = <<>> THEN seen
    ELSE Remember(IF seen[Head(texts)] = None THEN [seen EXCEPT ![Head(texts)] = Head(out)] ELSE seen, Tail(texts), Tail(out))

\* LocalEmbeddings(dimensions = d)
ENew(d) ==
    /\ e_op = "init"
    /\ e_dim' = d
    /\ e_op' = "ready"
    /\ UNCHANGED <<rng, e_texts, e_out, e_seen, e_again, OtherVars>>

\* instance.embed_query(text)
EQuery(text) ==
    /\ e_op # "init"
    /\ LET r == local_embed_query(e_dim, text, rng)
       IN  /\ e_out' = <<r.out>>
           /\ rng' = r.rng
           /\ e_seen' = Remember(e_seen, <<text>>, <<r.out>>)
    /\ e_texts' = <<text>>
    /\ e_again' = (e_seen[text] # None)
    /\ e_op' = "query"
    /\ UNCHANGED <<e_dim, OtherVars>>

\* instance.embed_documents(texts); "if not texts: return []"
EDocuments(texts) ==
    /\ e_op # "init"
    /\ LET r == local_embed_documents(e_dim, texts, rng)
       IN  /\ e_out' = r.out
           /\ rng' = r.rng
           /\ e_seen' = Remember(e_seen, texts, r.out)
    /\ e_texts' = texts
    /\ e_again' = (\E i \in 1..Len(texts) : e_seen[texts[i]] # None)
    /\ e_op' = "documents"
    /\ UNCHANGED <<e_dim, OtherVars>>

\* vectorstore.py:85-89: an inline store built meanwhile, whose
\* embed_documents raised, seeds the generator and draws for n texts
EInlineFallback(n) ==
    /\ e_op # "init"
    /\ rng' = RandomState(42, InlineDim * n)
    /\ UNCHANGED <<e_dim, e_op, e_texts, e_out, e_seen, e_again, OtherVars>>

EmbedNext ==
    \/ e_op = "init" /\ \E d \in EDims : ENew(d)
    \/ e_op # "init" /\ \E t \in ETexts : EQuery(t)
    \/ e_op # "init" /\ \E b \in EBatches : EDocuments(b)
    \/ e_op # "init" /\ \E n \in {1, 2} : EInlineFallback(n)

EmbedSpec == Init /\ [][EmbedNext]_vars


-----------------------------------------------------------------------------
(* _cosine_similarity called with bounded vectors *)

Components == -1..MaxComponent

\* vectors of two components, and one of another length
CVectors == {<<x, y>> : x \in Components, y \in Components} \cup {<<1>>}

\* store._cosine_similarity(vec1, vec2)
CCosine(vec1, vec2) ==
    /\ c_sim = None
    /\ c_vec1' = vec1
    /\ c_vec2' = vec2
    /\ c_sim' = float_cosine_similarity(vec1, vec2)
    /\ UNCHANGED <<svars, avars, h_docs, h_env, h_store, h_ctor, h_query, h_k, h_seed, h_results, h_op, evars, rvars, yvars>>

CosineNext == c_sim = None /\ \E vec1 \in CVectors, vec2 \in CVectors : CCosine(vec1, vec2)

CosineSpec == Init /\ [][CosineNext]_vars


-----------------------------------------------------------------------------
(* create_retriever and the retrievers it returns, over stores of bounded   *)
(* chunk lists                                                              *)

\* one more chunk than the default reranker_top_n
ManyChunks == [i \in 1..reranker_top_n + 1 |-> Doc(IF i % 2 = 1 THEN "a" ELSE "b", "h.txt", "text", 1, i)]

RDocLists == HDocLists(MaxDocs, 0) \cup {ManyChunks}

\* search_k and reranker_top_n: the defaults, and smaller ones
RParams == {<<search_k, reranker_top_n>>, <<3, 2>>, <<2, 1>>}

\* create_retriever(create_vector_store(docs), k, top_n)
RCreate(docs, env, k, top_n, cross_ok) ==
    /\ r_op = "init"
    /\ LET store == create_vector_store(docs, env)
       IN  /\ IsStore(store)
           /\ h_store' = store
           /\ r_retriever' = create_retriever(store, k, top_n, cross_ok)
           /\ r_params' = [search_k |-> k, reranker_top_n |-> top_n, cross_ok |-> cross_ok, cross_tried |-> LoadsCrossEncoder(store, k)]
    /\ h_docs' = docs
    /\ h_env' = env
    /\ r_op' = "created"
    /\ UNCHANGED <<svars, avars, h_ctor, h_query, h_k, h_seed, h_results, h_op, evars, cvars, yvars, r_query, r_cands, r_out>>

\* retriever.invoke(q)
RInvoke(q, score_ok) ==
    /\ r_op = "created"
    /\ r_query' = [text |-> q, score_ok |-> score_ok]
    /\ r_cands' = Candidates(r_retriever, q, 0)
    /\ r_out' = Invoke(r_retriever, q, 0, score_ok)
    /\ r_op' = "invoked"
    /\ UNCHANGED <<svars, avars, h_docs, h_env, h_store, h_ctor, h_query, h_k, h_seed, h_results, h_op, evars, cvars, yvars, r_retriever, r_params>>

RetrieverNext ==
    \/ r_op = "init" /\ \E d \in RDocLists, e \in SessionEnvs, p \in RParams, c \in BOOLEAN : RCreate(d, e, p[1], p[2], c)
    \/ r_op = "created" /\ \E q \in Texts, ok \in BOOLEAN : RInvoke(q, ok)

RetrieverSpec == Init /\ [][RetrieverNext]_vars


-----------------------------------------------------------------------------
(* load_documents called by two threads of the process, one call each,      *)
(* statement by statement                                                   *)

LoaderOthers == <<svars, avars, h_docs, h_env, h_store, h_ctor, h_query, h_k, h_seed, h_results, h_op, evars, cvars, rvars, kvars>>

\* thread p calls load_documents(body, name)
LCall(p, name, body) ==
    /\ l_calls[p].pc = "idle"
    /\ l_calls' = [l_calls EXCEPT ![p] = Call(name, body, "called", "none", <<>>, None)]
    /\ UNCHANGED <<temp_files, LoaderOthers>>

\* document_loader.py:90-101
LDispatch(p) ==
    /\ l_calls[p].pc = "called"
    /\ l_calls' = [l_calls EXCEPT ![p] = Dispatch(l_calls[p], p)]
    /\ UNCHANGED <<temp_files, LoaderOthers>>

\* document_loader.py:13-15
LWrite(p) ==
    /\ l_calls[p].pc = "write"
    /\ temp_files' = WriteTemp(temp_files, l_calls[p])
    /\ l_calls' = [l_calls EXCEPT ![p].pc = "load"]
    /\ UNCHANGED LoaderOthers

\* document_loader.py:18-19
LLoad(p) ==
    /\ l_calls[p].pc = "load"
    /\ l_calls' = [l_calls EXCEPT ![p] = LoadTemp(temp_files, l_calls[p])]
    /\ UNCHANGED <<temp_files, LoaderOthers>>

\* document_loader.py:22-29
LRemove(p) ==
    /\ l_calls[p].pc = "remove"
    /\ \E r \in {RemoveTemp(temp_files, l_calls[p], p)} :
          /\ temp_files' = r[1]
          /\ l_calls' = [l_calls EXCEPT ![p] = r[2]]
    /\ UNCHANGED LoaderOthers

LoaderNext ==
    \/ \E p \in Threads, name \in LNames, body \in LBodies : LCall(p, name, body)
    \/ \E p \in Threads : LDispatch(p)
    \/ \E p \in Threads : LWrite(p)
    \/ \E p \in Threads : LLoad(p)
    \/ \E p \in Threads : LRemove(p)

LoaderSpec == Init /\ [][LoaderNext]_vars


-----------------------------------------------------------------------------
(* chunk_data called once with a bounded text, chunk_size and chunk_overlap *)

KAlphabet == {"a", "b", " ", "\n"}

\* the texts of exactly n characters
RECURSIVE TextsOfLength(_)
TextsOfLength(n) == IF n = 0 THEN {""} ELSE {t \o c : t \in TextsOfLength(n - 1), c \in KAlphabet}

KTexts == UNION {TextsOfLength(n) : n \in 0..MaxText}

\* chunk_size and chunk_overlap: small ones and the defaults of chunker.py:5
KSizes == 1..MaxChunk \cup {DefaultChunkSize}
KOverlaps == {0, 1, DefaultChunkOverlap}

\* chunk_data([Document(page_content=text)], chunk_size, chunk_overlap)
KChunk(text, chunk_size, chunk_overlap) ==
    /\ k_out = None
    /\ k_text' = text
    /\ k_params' = Params(chunk_size, chunk_overlap)
    /\ k_out' = chunk_data_sized(<<Doc(text, "k.txt", "text", 1, 1)>>, chunk_size, chunk_overlap)
    /\ UNCHANGED <<svars, avars, h_docs, h_env, h_store, h_ctor, h_query, h_k, h_seed, h_results, h_op, evars, cvars, rvars, lvars>>

ChunkNext == k_out = None /\ \E t \in KTexts, s \in KSizes, o \in KOverlaps : KChunk(t, s, o)

ChunkSpec == Init /\ [][ChunkNext]_vars


-----------------------------------------------------------------------------
(* Properties of the stores *)

\* Where the store keeps the embedding of a chunk (by identity); 0: nowhere
EmbeddingIndex(store, doc) ==
    LET embedded == IF store.kind = "Chroma" THEN store.documents ELSE WithContent(store.documents)
        at == {i \in 1..Len(embedded) : embedded[i].id = doc.id}
    IN  IF at = {} \/ at \cap DOMAIN store.embeddings = {} THEN 0 ELSE CHOOSE i \in at : TRUE

\* cosine similarity of the chunk's stored embedding to the query vector
ChunkSimilarity(store, doc, qv) == cosine_similarity(qv, store.embeddings[EmbeddingIndex(store, doc)])

\* Every returned chunk has a stored embedding, and the similarities of the
\* returned chunks to the query vector never increase along the result
OrderedBySimilarity(store, results, qv) ==
    /\ \A i \in 1..Len(results) : EmbeddingIndex(store, results[i]) # 0
    /\ \A i \in 1..Len(results) : \A j \in i + 1..Len(results) : ~SimLess(ChunkSimilarity(store, results[i], qv), ChunkSimilarity(store, results[j], qv))

NoDuplicates(results) == \A i \in 1..Len(results) : \A j \in 1..Len(results) : results[i].id = results[j].id => i = j

\* C8: create_vector_store, given at least one chunk with text, never raises:
\* whatever makes the primary embedding model or the primary store fail, it
\* returns a store, and a fallback store when the primary build failed.
C8_PrimaryFailureIsAlwaysCaught ==
    (h_op = "create" /\ h_ctor = "create_vector_store" /\ WithContent(h_docs) # <<>>) =>
        /\ IsStore(h_store)
        /\ h_env.chroma # "ok" => IsFallbackStore(h_store)

\* C9: after a failed primary build, the store create_vector_store returned
\* (SimpleVectorStore or the inline store) answers a query for k >= 1 chunks
\* with a non-empty result ordered by non-increasing cosine similarity to
\* the query embedding.
C9_FallbackResultNonEmptyAndOrdered ==
    (h_op = "search" /\ h_ctor = "create_vector_store" /\ h_env.chroma # "ok" /\ h_k >= 1) =>
        /\ h_results # <<>>
        /\ OrderedBySimilarity(h_store, h_results, QueryEmbedding(h_store, h_query, h_seed))

\* C10: SimpleVectorStore.similarity_search(query, k), k >= 0, returns at most
\* k chunks, at most as many as are stored, no chunk twice, in order of
\* non-increasing cosine similarity of the chunk's embedding to the query
\* embedding, and nothing when the store holds no embeddings.
C10_SearchReturnsTopKOrdered ==
    (h_op = "search" /\ h_store.kind = "SimpleVectorStore") =>
        /\ Len(h_results) <= h_k
        /\ Len(h_results) <= Len(h_store.embeddings)
        /\ NoDuplicates(h_results)
        /\ OrderedBySimilarity(h_store, h_results, QueryEmbedding(h_store, h_query, h_seed))
        /\ h_store.embeddings = <<>> => h_results = <<>>

-----------------------------------------------------------------------------
(* Properties of the session *)

\* Every text in the sequence of documents comes from submission n
AllOfSet(docs, n) == \A i \in 1..Len(docs) : docs[i].set = n

\* The session is Ready: the store, the retriever over it and the chain over
\* the retriever are built, for the documents the session holds
SessionReady ==
    /\ processed
    /\ IsStore(vector_store)
    /\ vector_store.documents = chunk_data(documents)
    /\ retriever.kind # "None"
    /\ retriever.store = vector_store
    /\ rag_chain = Chain(retriever)

\* C1: a question reaches the RAG chain only in a Ready session; a question
\* asked in any other state ends in the error shown by process_question, with
\* nothing retrieved and nothing added to the conversation.
C1_QuestionReachesChainOnlyWhenReady ==
    lastAsk.calls > 0 =>
        IF SessionReady
        THEN lastAsk.reached
        ELSE ~lastAsk.reached /\ lastAsk.outcome = "error" /\ lastAsk.results = <<>> /\ chat_history = <<>>

\* C1 witness: a question was answered from the index of a Ready session
C1_Witness == SessionReady /\ lastAsk.outcome = "answer" /\ lastAsk.results # <<>>

\* C2 as claimed: wherever processed is True, vector_store, retriever and
\* rag_chain are all built objects for the current document set, whatever
\* buttons were pressed (process, demo mode, clear chat, ask).
C2_ProcessedImpliesAllBuilt == processed => SessionReady

\* C2 as amended: wherever processed is True other than by the demo mode
\* button, and wherever rag_chain is a chain a question can reach,
\* vector_store, retriever and rag_chain are all built objects for the
\* current document set: the store holds the chunks of the session's
\* documents, the retriever is over that store, the chain over that
\* retriever.
C2_ProcessedByIndexingImpliesAllBuilt ==
    /\ (processed /\ documents # DemoDocuments) => SessionReady
    /\ CanInvoke(rag_chain) => SessionReady /\ vector_store.documents # <<>>

\* C2 witness: the handler has published a chain over a store of two chunks
C2_Witness == processed /\ message = "Activated" /\ CanInvoke(rag_chain) /\ Len(vector_store.documents) = 2

\* Nothing in the session comes from a submission before the n-th
NothingOlderThan(n) ==
    /\ IsStore(vector_store) => AllOfSet(vector_store.documents, n)
    /\ retriever.kind # "None" => AllOfSet(retriever.store.documents, n)
    /\ CanInvoke(rag_chain) => AllOfSet(rag_chain.retriever.store.documents, n)
    /\ AllOfSet(documents, n)
    /\ \A e \in document_sources : e.set = n
    /\ \A i \in 1..Len(chat_history) : AllOfSet(chat_history[i].answer.context, n)

\* C3: when a submission with input is accepted, the session is cleared
\* before the first file is loaded (vector_store, retriever, rag_chain,
\* documents, document_sources, chat_history, last_question reset, processed
\* False), and from then until the session is next Ready nothing in it comes
\* from an earlier document set.
C3_ClearedBeforeIndexing ==
    /\ pc = "load" =>
          /\ vector_store = None /\ retriever = None /\ rag_chain = None
          /\ documents = <<>> /\ document_sources = {} /\ chat_history = <<>>
          /\ last_question = "" /\ ~processed
    /\ (docset >= 1 /\ ~processed) => NothingOlderThan(docset)

\* C3 witness: a new submission is about to load its files, and the one
\* before it had got as far as a vector store
C3_Witness == pc = "load" /\ docset - 1 \in built

\* C4: session replacement: once document set A has been indexed and
\* queried, the user submits document set B, it is indexed, and the queries
\* from then on return chunks of B only.  (Stated for a user who submits B
\* whenever the page offers the process button.)
C4_ReplacementAfterQuery ==
    (lastAsk.outcome = "answer" /\ docset = 1) ~> (docset = 2 /\ NothingOlderThan(2))

\* C5: from the Ready state a new document set can be submitted
\* (Ready -> Indexing).
C5_ReadyAcceptsNewDocumentSet == (SessionReady /\ pc = "idle" /\ docset < MaxSets) => ENABLED SubmitNew

\* What the session state holds besides the message shown
C6_Kept == <<svars, locals, pc, docset, built, lastAsk>>

\* C6: pressing the process button with no file and with empty or
\* whitespace-only manual text shows the NoInput warning and nothing else:
\* the handler does not start (no load, no chunking, no index build) and
\* every session variable is as before.
C6_NoInputChangesNothing ==
    [][((upload' # upload \/ message' # message) /\ upload'.files = <<>> /\ upload'.text \in Blank /\ pc = "idle" /\ ~processed /\ ~processed') => (message' = "NoInput" /\ UNCHANGED C6_Kept)]_vars

\* C6 witness: the warning is shown for whitespace-only text, with what the
\* failed submission before it left in the session still there
C6_Witness == message = "NoInput" /\ upload.text = " " /\ IsStore(vector_store) /\ document_sources # {}

\* The submission being handled loads, and yields no chunk
EmptyDocumentSet ==
    LET r == LoadSubmission(upload.files, upload.text, docset)
    IN  r.kind = "ok" /\ SplitDocuments(r.docs) = <<>>

\* C7: when an accepted submission yields no document or no usable chunk,
\* the handler ends with an error shown, with no retriever and no chain
\* created, and the session not Ready.
C7_EmptyDocumentSetIsReported ==
    [][(pc # "idle" /\ pc' = "idle" /\ EmptyDocumentSet) => (message' \in {"ErrorProcessing", "NoValidDocuments"} /\ retriever' = None /\ rag_chain' = None /\ vector_store' = None /\ ~processed')]_vars

\* C7 witness: a whitespace-only text file got as far as the vector store
\* step, which refused it
C7_Witness == pc = "idle" /\ message = "ErrorProcessing" /\ EmptyDocumentSet /\ all_docs # <<>> /\ chunks = <<>>

-----------------------------------------------------------------------------
(* Properties of the stores and the session, continued *)

\* C11: producer binding: whenever a store embeds a query, the producer of
\* the query vector is the producer of the store's chunk vectors, also when
\* embed_documents or embed_query raised inside the fallback store.
C11_QueryProducerIsStoreProducer ==
    (h_op = "search" /\ h_store.kind \in {"SimpleVectorStore", "Chroma"} /\ h_store.embeddings # <<>>) =>
        QueryProducer(h_store) = h_store.producer

\* The retriever that create_retriever binds to the session's store, as far
\* as the stored one agrees with it
BoundToSessionStore == retriever.kind # "None" /\ retriever.store = vector_store /\ rag_chain = Chain(retriever)

-----------------------------------------------------------------------------
(* Properties of LocalEmbeddings *)

ECalled == e_op \in {"query", "documents"}

IsBlank(text) == ~Truthy(strip(text))

\* C13: within one LocalEmbeddings instance a text always gets the vector it
\* got the first time, from embed_query and from embed_documents alike,
\* whatever was called in between.
C13_LocalEmbeddingsDeterministic ==
    ECalled => \A i \in 1..Len(e_texts) : e_out[i] = e_seen[e_texts[i]]

\* C13 witness: embed_query of a blank text that was embedded before, with
\* the generator left elsewhere by other code
C13_Witness == e_op = "query" /\ e_again /\ e_texts = <<" ">> /\ e_seen["a"] # None /\ e_seen[LoneSurrogate] # None

\* The numbers the claim of C14 gives for digest h and d dimensions
ClaimedNumbers(h, d) ==
    [i \in 1..d |-> IF i - 1 < hash_len THEN h[i] ELSE (h[((i - 1) % hash_len) + 1] + (i - 1)) % 256]

\* C14: for a non-empty text with digest numbers h, the numbers before
\* normalisation are value[i] = h[i] for i < hash_len and
\* value[i] = (value[i mod hash_len] + i) mod 256 from hash_len on.
C14_PeriodicExtension ==
    (e_op = "query" /\ ~IsBlank(e_texts[1]) /\ Hashable(e_texts[1])) =>
        e_out[1].values = ClaimedNumbers(Md5Numbers(e_texts[1]), e_dim)

\* every component of the vector lies in [lo, 1], lo being 0 or -1
ComponentsWithin(v, lo) ==
    \A j \in 1..Len(v.values) : v.values[j] * v.values[j] <= v.den2 /\ (lo = 0 => v.values[j] >= 0)

\* C15 as claimed: every vector of embed_query and embed_documents has
\* exactly d components, and for non-blank text every component lies in
\* [0, 1].
C15_DimensionAndUnitInterval ==
    ECalled => \A i \in 1..Len(e_texts) :
        /\ Len(e_out[i].values) = e_dim
        /\ ~IsBlank(e_texts[i]) => ComponentsWithin(e_out[i], 0)

\* C15 as amended: every vector has exactly d components, each in [-1, 1];
\* for non-blank text that the hashing accepts every component lies in
\* [0, 1] (a text whose hashing raises gets the fixed-seed unit vector).
C15_DimensionAndRange ==
    ECalled => \A i \in 1..Len(e_texts) :
        /\ Len(e_out[i].values) = e_dim
        /\ ComponentsWithin(e_out[i], -1)
        /\ (~IsBlank(e_texts[i]) /\ Hashable(e_texts[i])) => ComponentsWithin(e_out[i], 0)

\* C15 witness: a batch of a hashed and a blank text at a dimension below
\* the digest's 16 numbers
C15_Witness == e_op = "documents" /\ e_dim = hash_len - 1 /\ e_texts = <<"a", " ">>

\* C16: a blank text is never hashed: embed_query and embed_documents give
\* it the unit vector drawn after random.seed(42), the same for every blank
\* text and every call.
C16_BlankGetsFixedSeedVector ==
    ECalled => \A i \in 1..Len(e_texts) : IsBlank(e_texts[i]) =>
        /\ e_out[i] # Vector(PadOrTruncate(Md5Numbers(e_texts[i]), e_dim), 255 * 255)
        /\ e_out[i].values = [j \in 1..e_dim |-> Draw(RandomState(42, j - 1))]
        /\ SumSq(e_out[i].values) = e_out[i].den2
        /\ \A t \in Blank : e_seen[t] # None => e_out[i] = e_seen[t]

\* C16 witness: the empty and the whitespace-only text in one batch, one of
\* them embedded before
C16_Witness == e_op = "documents" /\ e_again /\ e_texts = <<"", " ">> /\ e_dim = MaxDim

-----------------------------------------------------------------------------
(* Properties of _cosine_similarity *)

\* how far a float is from 1, in units of 2^(-MantissaBits), the largest
\* relative error of one rounding; 5: further than 4
UnitsFromOne(x) ==
    IF x.kind # "float" THEN 5
    ELSE IF x.e = -MantissaBits /\ x.m > 0 THEN Pow2(MantissaBits) - x.m
    ELSE IF x.e = 1 - MantissaBits /\ x.m > 0 THEN 2 * (x.m - Pow2(MantissaBits - 1))
    ELSE 5

CZeroMagnitude == DotN(c_vec1, c_vec1) = 0 \/ DotN(c_vec2, c_vec2) = 0

\* C17 as claimed: _cosine_similarity returns exactly 0, without an error,
\* whenever an argument has zero magnitude, and returns 1 when both
\* arguments are the same non-zero vector.
C17_ZeroAndSelfSimilarity ==
    c_sim # None =>
        /\ CZeroMagnitude => c_sim = Zero
        /\ (c_vec1 = c_vec2 /\ ~CZeroMagnitude) => c_sim = One

\* C17 as amended: _cosine_similarity returns exactly 0, without an error,
\* whenever an argument has zero magnitude, and when both arguments are the
\* same non-zero vector it returns 1 up to the rounding of its three
\* floating point operations (square root, product, quotient): a value
\* within 4 rounding units of 1, not always 1.
C17_ZeroAndSelfSimilarityRounded ==
    c_sim # None =>
        /\ CZeroMagnitude => c_sim = Zero
        /\ (c_vec1 = c_vec2 /\ ~CZeroMagnitude) => UnitsFromOne(c_sim) <= 4

\* C17 witness: a vector compared with itself gave a value that is not 1
C17_Witness == c_vec1 = c_vec2 /\ c_sim # None /\ UnitsFromOne(c_sim) \in {1, 2}

-----------------------------------------------------------------------------
(* Properties of the retrievers *)

\* C18: rerank pass-through: when the cross-encoder is unavailable, the
\* retriever that create_retriever returned gives, for every query, exactly
\* the first reranker_top_n candidates of the vector index search, in the
\* index's order.
C18_PassThroughFirstTopN ==
    (r_op = "invoked" /\ ~r_params.cross_ok) =>
        r_out = Found(Take(r_cands, r_params.reranker_top_n))

\* C19: a reranker failure never breaks retrieval: whether the cross-encoder
\* fails to load at create_retriever or fails to score during a query, the
\* query returns candidates of the vector index, not an error.
C19_RerankerFailureKeepsRetrieval ==
    (r_op = "invoked" /\ (~r_params.cross_ok \/ ~r_query.score_ok)) =>
        /\ r_out.kind = "ok"
        /\ \A i \in 1..Len(r_out.docs) : \E j \in 1..Len(r_cands) : r_out.docs[i] = r_cands[j]

\* C20: whatever retriever create_retriever returned (reranking, primary
\* base, fallback SimpleRetriever), a query returns at most reranker_top_n
\* chunks.
C20_ResultWithinCap ==
    (r_op = "invoked" /\ r_out.kind = "ok") => Len(r_out.docs) <= r_params.reranker_top_n

-----------------------------------------------------------------------------
(* Properties of the session, continued *)

\* C24: a failed submission leaves nothing half-built: when a step of an
\* accepted submission raised (load, chunking, index build, retriever or
\* chain creation), the session has processed = False and vector_store,
\* retriever, rag_chain and document_sources hold nothing of the failed set.
C24_FailedSubmissionLeavesNothing ==
    (pc = "idle" /\ message = "ErrorProcessing") =>
        /\ ~processed
        /\ vector_store = None
        /\ retriever = None
        /\ rag_chain = None
        /\ document_sources = {}

\* C27: each submitted question is processed at most once: an event calls
\* process_question at most once; an answer appends exactly one entry to
\* chat_history, and a question whose answer generation raised leaves
\* chat_history as it was (unless the event is the Clear Chat History
\* button) and is not run again in the same script pass or the rerun after it.
C27_QuestionProcessedOnce ==
    [][(lastAsk' # lastAsk /\ lastAsk'.calls > 0) =>
            /\ lastAsk'.calls = 1
            /\ lastAsk'.outcome = "answer" => Len(chat_history') = Len(chat_history) + 1
            /\ lastAsk'.outcome = "error" => chat_history' = chat_history \/ message' = "ChatCleared"]_vars

-----------------------------------------------------------------------------
(* Properties of the stores, continued *)

\* C25: in a SimpleVectorStore, after construction or any add_documents
\* calls, the i-th stored embedding is the embedding of the i-th entry of
\* documents, and similarity_search returns for each ranked score the
\* document whose text produced that embedding, also when some documents
\* have empty page_content.
C25_EmbeddingsAlignedWithDocuments ==
    (h_op # "init" /\ h_store.kind = "SimpleVectorStore") =>
        /\ \A i \in 1..Len(h_store.embeddings) :
              i <= Len(h_store.documents) /\ EmbeddingIndex(h_store, h_store.documents[i]) = i
        /\ h_op = "search" =>
              LET ranked == RankedIndices(h_store, h_query, h_k, h_seed)
              IN  /\ Len(h_results) = Len(ranked)
                  /\ \A j \in 1..Len(ranked) : EmbeddingIndex(h_store, h_results[j]) = ranked[j] + 1

\* C26: in a SimpleVectorStore, after construction and after every
\* add_documents call, whether embed_documents worked or raised, embeddings
\* and metadata have as many entries as there are stored documents with
\* non-empty page_content, and get_document_count is the number of documents
\* ever given to the store.
C26_CountsAgree ==
    (h_op # "init" /\ h_store.kind = "SimpleVectorStore") =>
        /\ Len(h_store.embeddings) = Len(WithContent(h_store.documents))
        /\ Len(h_store.metadata) = Len(WithContent(h_store.documents))
        /\ get_document_count(h_store) = Len(h_docs)

\* add_documents on a store whose embed_documents raises and that holds a
\* document without text
C26_Witness ==
    /\ h_op = "add"
    /\ h_store.kind = "SimpleVectorStore"
    /\ h_store.producer = "numpy"
    /\ h_store.embeddings # <<>>
    /\ Len(WithContent(h_docs)) < Len(h_docs)

-----------------------------------------------------------------------------
(* Properties of the retrievers, continued *)

\* C30: create_retriever returns a cross-encoder reranking retriever exactly
\* when the store is the primary backend and the cross-encoder loaded; for
\* a fallback store (SimpleVectorStore or the inline store) it returns the
\* store's own retriever and never tries to load the cross-encoder.
C30_RerankingIffPrimaryAndLoaded ==
    r_op # "init" =>
        /\ r_retriever.kind = "ContextualCompressionRetriever" <=> (h_store.kind = "Chroma" /\ r_params.cross_ok)
        /\ IsFallbackStore(h_store) =>
              /\ r_retriever.kind = "SimpleRetriever"
              /\ r_retriever.store = h_store
              /\ ~r_params.cross_tried

\* create_retriever on the inline store while the cross-encoder would load
C30_Witness ==
    /\ r_op = "created"
    /\ h_store.kind = "InlineVectorStore"
    /\ r_params.cross_ok
    /\ r_retriever.kind = "SimpleRetriever"

-----------------------------------------------------------------------------
(* Properties of the loaders *)

SupportedExtensions == {"pdf", "doc", "docx", "xls", "xlsx", "txt"}

HasDot(name) == Dots(name) # {}

\* The extension of a file name as the claims take it: the text after the
\* last '.', in lower case; a name without '.' has none
NamedExtension(name) == IF HasDot(name) THEN AfterLastDot(lower(name)) ELSE ""

Finished(p) == l_calls[p].pc = "done"

\* C21: for every filename whose extension (the text after the last '.',
\* compared case-insensitively) is not one of pdf, doc, docx, xls, xlsx, txt,
\* load_documents fails with an unsupported-format error that names the
\* extension, invokes no loader and returns no documents.
C21_UnsupportedExtensionRejected ==
    \A p \in Threads :
        (Finished(p) /\ NamedExtension(l_calls[p].name) \notin SupportedExtensions) =>
            /\ l_calls[p].loader = "none"
            /\ l_calls[p].out.kind = "Raised"
            /\ HasDot(l_calls[p].name) => l_calls[p].out.error = "Unsupported file type: " \o NamedExtension(l_calls[p].name)

\* C22: per-file ingestion shares no mutable state: load_documents calls
\* running at the same time on different uploads (two PDF uploads with the
\* same filename included) cannot interfere: in every interleaving each
\* call returns what it returns when run alone, the documents of its own
\* bytes or its own error.
C22_ConcurrentLoadsIndependent ==
    \A p \in Threads :
        Finished(p) => l_calls[p].out = load_documents(l_calls[p].body, l_calls[p].name, p)

\* C28: load_pdf removes the temporary file it wrote on every path: after
\* a call that ran with no other call beside it returned or raised, no
\* temporary file is left.
C28_TempFileRemovedOnEveryPath ==
    \A p \in Threads :
        (Finished(p) /\ \A o \in Threads \ {p} : l_calls[o].pc = "idle") =>
            \A path \in TempPaths : temp_files[path] = Absent

\* C29: a filename without '.' (such as "txt" or "pdf") is rejected by
\* load_documents as an unsupported file type and never handed to a loader.
C29_NameWithoutDotRejected ==
    \A p \in Threads :
        (Finished(p) /\ ~HasDot(l_calls[p].name)) =>
            /\ l_calls[p].loader = "none"
            /\ l_calls[p].out.kind = "Raised"

-----------------------------------------------------------------------------
(* Properties of the chunker *)

\* the content of a text: its characters other than whitespace, in order
RECURSIVE Content(_)
Content(t) ==
    IF Len(t) = 0 THEN ""
    ELSE (IF SubSeq(t, 1, 1) \in Whitespace THEN "" ELSE SubSeq(t, 1, 1)) \o Content(SubSeq(t, 2, Len(t)))

Smaller(a, b) == IF a < b THEN a ELSE b

\* The chunks, each with an overlap of at most max characters that repeats
\* the end of what came before removed from its start, give target when
\* put together after acc
RECURSIVE Reassembles(_, _, _, _)
Reassembles(parts, acc, target, max) ==
    IF parts = <<>> THEN acc = target
    ELSE LET c == Content(Head(parts).page_content)
         IN  \E n \in 0..Smaller(Smaller(Len(c), Len(acc)), max) :
                 /\ SubSeq(c, 1, n) = SubSeq(acc, Len(acc) - n + 1, Len(acc))
                 /\ Reassembles(Tail(parts), acc \o SubSeq(c, n + 1, Len(c)), target, max)

\* C23: for every text t and every chunk size s, chunk_data produces chunks
\* of length <= s each, and the chunks with the overlap removed reconstruct
\* the content of t.
C23_ChunksBoundedAndComplete ==
    k_out # None =>
        /\ k_out.kind = "ok"
        /\ \A i \in 1..Len(k_out.docs) : Len(k_out.docs[i].page_content) <= k_params.chunk_size
        /\ Reassembles(k_out.docs, "", Content(k_text), k_params.chunk_overlap)

=============================================================================
